---- MODULE Spec2Model ----
(***************************************************************************)
(* Voting / karma and document handlers (controllers/handlerFactory) and   *)
(* the community controller of the nodeit backend, as a state machine over *)
(* the records of the document store.  The handlers are run one request at *)
(* a time (SpecVote, SpecCommunity, SpecBan, SpecDocument, SpecCorrupt)    *)
(* and, for the vote handlers, interleaved at their awaits and unawaited   *)
(* saves (SpecInterleaved).                                                *)
(*                                                                         *)
(* A mongoose array is modelled by the number of times each id occurs in   *)
(* it (the handlers only use includes / push / pull, none of which reads   *)
(* the order).  A record that findById does not find has exists = FALSE.   *)
(***************************************************************************)
EXTENDS Integers, Sequences, FiniteSets, TLC

\* ------------------------------------------------------------------ universe
\* User ids a request can carry.  "u3" is an account that may have been
\* deleted (Init chooses), so that findById returns null for it.
Users == {"u1", "u2", "u3"}

\* Document ids: d1 is a Post created by u2, d2 a Comment created by u3.
DocIds == {"d1", "d2"}

\* The mongoose models the vote handlers are instantiated with.
Models == {"Post", "Comment"}

\* Number of community ids the store can hand out.
MaxCommunities == 1

CommIds == 1..MaxCommunities

VARIABLES
    users,        \* User collection: id -> record
    documents,    \* Post and Comment collections: id -> record
    communities,  \* Community collection: id -> record
    lastReq,      \* the request handled last, with the status it was answered with
    pre,          \* users and documents as they were before the last vote request
    inflight,     \* vote requests between their first findById and their last save
    started       \* number of vote requests begun as interleaved requests

vars == <<users, documents, communities, lastReq, pre, inflight, started>>

\* ------------------------------------------------------------ mongoose arrays
includes(arr, id) == arr[id] > 0

\* pushIfAbsent is $addToSet, which the handlers do not use.
pushIfAbsent(arr, id) == [arr EXCEPT ![id] = 1]

push(arr, id) == [arr EXCEPT ![id] = @ + 1]

pull(arr, id) == [arr EXCEPT ![id] = 0]

EmptyArray(S) == [x \in S |-> 0]

\* An optional request-body field: {} is undefined, {v} is the value v.
Given(opt) == opt # {}

Val(opt) == CHOOSE v \in opt : TRUE

\* doc.save() of a document whose modified paths are DOMAIN set: a $set.
SetFields(rec, set) ==
    [f \in DOMAIN rec |-> IF f \in DOMAIN set THEN set[f] ELSE rec[f]]

\* userDoc.save() after pull(id) on the arrays pullF and push(id) on the
\* arrays pushF: $pull / $push of id on those paths, nothing else written.
UpdateArrays(rec, id, pullF, pushF) ==
    [f \in DOMAIN rec |->
        IF f \in pullF THEN pull(rec[f], id)
        ELSE IF f \in pushF THEN push(rec[f], id)
        ELSE rec[f]]

\* ------------------------------------------------------------ requests
\* What is recorded of the request handled last: the handler and the status
\* it answered with and, for a vote request, the model, document id and
\* acting user.
Request(op, Model, id, user, status) ==
    [op |-> op, Model |-> Model, id |-> id, user |-> user, status |-> status]

Handled(op, status) == Request(op, "", "", "", status)

VoteOps == {"upvoteDocument", "downvoteDocument", "removeUpvote", "removeDownvote"}

\* ------------------------------------------------------------ vote handlers
\* Model.findById(req.params.id): a document of that model's collection.
FindDocument(Model, id) ==
    documents[id].exists /\ documents[id].modelName = Model

\* The names of the user's two vote arrays for the model.
VoteFields(Model) ==
    IF Model = "Post"
    THEN [up |-> "upvotedPosts", down |-> "downvotedPosts"]
    ELSE IF Model = "Comment"
    THEN [up |-> "upvotedComments", down |-> "downvotedComments"]
    ELSE [up |-> "upvotedDocs", down |-> "downvotedDocs"]

\* The guards of the four handlers (lines 128, 182, 229, 271); the Never
\* variants are the handlers with the guard left out.
AlreadyVotedNever(arr, id) == FALSE

AlreadyVoted(arr, id) == includes(arr, id)

NotVotedNever(arr, id) == FALSE

NotVoted(arr, id) == ~includes(arr, id)

\* The array the opposite vote is pulled from when the vote is switched
\* (lines 131-132, 185-186); SwitchPullNothing is the switch without the pull.
SwitchPullNothing(switch, field) == {}

SwitchPull(switch, field) == IF switch THEN {field} ELSE {}

\* The counters document.save() writes after an upvote (lines 133, 139) and
\* after a downvote (lines 187, 193); UpvoteCountersKeepDownvotes is the
\* upvote without line 133.
UpvoteCountersKeepDownvotes(document, switch) ==
    [upvotes |-> document.upvotes + 1]

UpvoteCounters(document, switch) ==
    IF switch
    THEN [upvotes |-> document.upvotes + 1, downvotes |-> document.downvotes - 1]
    ELSE [upvotes |-> document.upvotes + 1]

DownvoteCounters(document, switch) ==
    IF switch
    THEN [upvotes |-> document.upvotes - 1, downvotes |-> document.downvotes + 1]
    ELSE [downvotes |-> document.downvotes + 1]

\* The karma creator.save() writes after a downvote (lines 188, 195), after
\* removeUpvote (line 234) and after an upvote (lines 134, 141);
\* DownvoteKarmaOnce is the downvote without line 188, RemoveUpvoteKarmaKept
\* removeUpvote without line 234.
DownvoteKarmaOnce(creator, switch) == creator.karma - 1

DownvoteKarma(creator, switch) ==
    (IF switch THEN creator.karma - 1 ELSE creator.karma) - 1

RemoveUpvoteKarmaKept(creator) == creator.karma

RemoveUpvoteKarma(creator) == creator.karma - 1

UpvoteKarma(creator, switch) ==
    (IF switch THEN creator.karma + 1 ELSE creator.karma) + 1

\* What a handler ends with: the response status, the saves it issued (in
\* order) and what each save writes.  A thrown error that no save precedes
\* writes nothing.
Thrown(status) ==
    [status |-> status, saves |-> <<>>,
     user |-> [pull |-> {}, push |-> {}], document |-> <<>>, creator |-> <<>>]

\* upvoteDocument from the load of userDoc and creator to the response.
\* A null userDoc makes line 121 throw a TypeError, a null creator makes the
\* first creator.karma++ reached throw one; both are answered with 500.
UpvoteOutcome(Model, userDoc, document, creator) ==
    LET f == VoteFields(Model)
        id == document.id
    IN  IF ~userDoc.exists THEN Thrown(500)
        ELSE IF AlreadyVoted(userDoc[f.up], id) THEN Thrown(400)
        ELSE LET switch == includes(userDoc[f.down], id)
                 usr == [pull |-> SwitchPull(switch, f.down), push |-> {f.up}]
                 doc == UpvoteCounters(document, switch)
             IN  IF switch /\ ~creator.exists THEN Thrown(500)
                 ELSE IF ~creator.exists
                 THEN [status |-> 500, saves |-> <<"user", "document">>,
                       user |-> usr, document |-> doc, creator |-> <<>>]
                 ELSE [status |-> 200,
                       saves |-> <<"user", "document", "creator">>,
                       user |-> usr, document |-> doc,
                       creator |-> [karma |-> UpvoteKarma(creator, switch)]]

\* downvoteDocument, the mirror image.
DownvoteOutcome(Model, userDoc, document, creator) ==
    LET f == VoteFields(Model)
        id == document.id
    IN  IF ~userDoc.exists THEN Thrown(500)
        ELSE IF AlreadyVoted(userDoc[f.down], id) THEN Thrown(400)
        ELSE LET switch == includes(userDoc[f.up], id)
                 usr == [pull |-> SwitchPull(switch, f.up), push |-> {f.down}]
                 doc == DownvoteCounters(document, switch)
             IN  IF switch /\ ~creator.exists THEN Thrown(500)
                 ELSE IF ~creator.exists
                 THEN [status |-> 500, saves |-> <<"user", "document">>,
                       user |-> usr, document |-> doc, creator |-> <<>>]
                 ELSE [status |-> 200,
                       saves |-> <<"user", "document", "creator">>,
                       user |-> usr, document |-> doc,
                       creator |-> [karma |-> DownvoteKarma(creator, switch)]]

\* removeUpvote: the three saves follow the if/else, so a null creator
\* throws (line 234) before any of them.
RemoveUpvoteOutcome(Model, userDoc, document, creator) ==
    LET f == VoteFields(Model)
        id == document.id
    IN  IF ~userDoc.exists THEN Thrown(500)
        ELSE IF NotVoted(userDoc[f.up], id) THEN Thrown(400)
        ELSE IF ~creator.exists THEN Thrown(500)
        ELSE [status |-> 200, saves |-> <<"user", "document", "creator">>,
              user |-> [pull |-> {f.up}, push |-> {}],
              document |-> [upvotes |-> document.upvotes - 1],
              creator |-> [karma |-> RemoveUpvoteKarma(creator)]]

RemoveDownvoteOutcome(Model, userDoc, document, creator) ==
    LET f == VoteFields(Model)
        id == document.id
    IN  IF ~userDoc.exists THEN Thrown(500)
        ELSE IF NotVoted(userDoc[f.down], id) THEN Thrown(400)
        ELSE IF ~creator.exists THEN Thrown(500)
        ELSE [status |-> 200, saves |-> <<"user", "document", "creator">>,
              user |-> [pull |-> {f.down}, push |-> {}],
              document |-> [downvotes |-> document.downvotes - 1],
              creator |-> [karma |-> creator.karma + 1]]

\* The saves of an outcome, completed in the order they were issued:
\* userDoc.save(), document.save(), creator.save().  userDoc and creator are
\* two loads of the same record when the voter created the document; each
\* save writes only the paths modified on its own copy.
\* SavedUsersWholeCopy is a creator.save() that writes the whole copy it
\* loaded, karma changed, over the record.
SavedUsersWholeCopy(out, id, user, creatorId) ==
    LET afterUser == [users EXCEPT
                        ![user] = UpdateArrays(@, id, out.user.pull, out.user.push)]
    IN  [afterUser EXCEPT ![creatorId] = SetFields(users[creatorId], out.creator)]

SavedUsers(out, id, user, creatorId) ==
    LET afterUser == [users EXCEPT
                        ![user] = UpdateArrays(@, id, out.user.pull, out.user.push)]
    IN  [afterUser EXCEPT ![creatorId] = SetFields(@, out.creator)]

SavedDocuments(out, id) ==
    [documents EXCEPT ![id] = SetFields(@, out.document)]

\* One vote request, from findById to the response, its saves completed.
Vote(op, Model, id, user, out) ==
    /\ pre' = [users |-> users, documents |-> documents]
    /\ UNCHANGED <<communities, inflight, started>>
    /\ IF ~FindDocument(Model, id)
       THEN /\ lastReq' = Request(op, Model, id, user, 404)
            /\ UNCHANGED <<users, documents>>
       ELSE /\ lastReq' = Request(op, Model, id, user, out.status)
            /\ users' = SavedUsers(out, id, user, documents[id].creator)
            /\ documents' = SavedDocuments(out, id)

upvoteDocument(Model, id, user) ==
    Vote("upvoteDocument", Model, id, user,
         UpvoteOutcome(Model, users[user], documents[id],
                       users[documents[id].creator]))

downvoteDocument(Model, id, user) ==
    Vote("downvoteDocument", Model, id, user,
         DownvoteOutcome(Model, users[user], documents[id],
                         users[documents[id].creator]))

removeUpvote(Model, id, user) ==
    Vote("removeUpvote", Model, id, user,
         RemoveUpvoteOutcome(Model, users[user], documents[id],
                             users[documents[id].creator]))

removeDownvote(Model, id, user) ==
    Vote("removeDownvote", Model, id, user,
         RemoveDownvoteOutcome(Model, users[user], documents[id],
                               users[documents[id].creator]))

\* ------------------------------------------------------------ initial state
\* Karma the three accounts start with: just below, at and above the
\* threshold the community gate compares against.
InitKarma == [u \in Users |-> IF u = "u1" THEN 48 ELSE IF u = "u2" THEN 49 ELSE 50]

InitUser(u, live) ==
    [exists |-> u \in live, karma |-> InitKarma[u],
     upvotedPosts |-> EmptyArray(DocIds), downvotedPosts |-> EmptyArray(DocIds),
     upvotedComments |-> EmptyArray(DocIds),
     downvotedComments |-> EmptyArray(DocIds),
     subscribedCommunities |-> EmptyArray(CommIds)]

InitDocuments ==
    [d \in DocIds |->
        [id |-> d, exists |-> TRUE,
         modelName |-> IF d = "d1" THEN "Post" ELSE "Comment",
         creator |-> IF d = "d1" THEN "u2" ELSE "u3",
         community |-> IF d = "d1" THEN 1 ELSE MaxCommunities,
         upvotes |-> 0, downvotes |-> 0]]

NoCommunity ==
    [exists |-> FALSE, name |-> <<>>, creator |-> "", moderators |-> {},
     bannedUsers |-> EmptyArray(Users), subscribers |-> 0]

NoRequest == Handled("", 0)

\* The requests that can be between their first findById and their last
\* save at the same time; a slot with no such request holds Idle.
Slots == {"r1", "r2"}

Idle ==
    [pc |-> "idle", op |-> "", Model |-> "", id |-> "", user |-> "",
     document |-> <<>>, userDoc |-> <<>>, out |-> Thrown(0),
     pending |-> {}, landed |-> {}, failed |-> {}, status |-> 0]

Init ==
    /\ \E live \in {Users, Users \ {"u3"}} :
          users = [u \in Users |-> InitUser(u, live)]
    /\ documents = InitDocuments
    /\ communities = [c \in CommIds |-> NoCommunity]
    /\ lastReq = NoRequest
    /\ pre = [users |-> users, documents |-> documents]
    /\ inflight = [s \in Slots |-> Idle]
    /\ started = 0

NextVote ==
    \E Model \in Models, id \in DocIds, user \in Users :
        \/ upvoteDocument(Model, id, user)
        \/ downvoteDocument(Model, id, user)
        \/ removeUpvote(Model, id, user)
        \/ removeDownvote(Model, id, user)

SpecVote == Init /\ [][NextVote]_vars

\* ------------------------------------------------------------ community handlers
\* The characters \w matches.
WordChars ==
    {"a", "b", "c", "d", "e", "f", "g", "h", "i", "j", "k", "l", "m", "n",
     "o", "p", "q", "r", "s", "t", "u", "v", "w", "x", "y", "z",
     "A", "B", "C", "D", "E", "F", "G", "H", "I", "J", "K", "L", "M", "N",
     "O", "P", "Q", "R", "S", "T", "U", "V", "W", "X", "Y", "Z",
     "0", "1", "2", "3", "4", "5", "6", "7", "8", "9", "_"}

\* name.match(/^\w+$/) === null, name a sequence of characters.
NameRejected(name) ==
    ~(Len(name) >= 1 /\ \A i \in 1..Len(name) : name[i] \in WordChars)

\* subCreatorDoc?.karma < 49: undefined < 49 is false for a null record.
KarmaTooLow(subCreatorDoc) ==
    subCreatorDoc.exists /\ subCreatorDoc.karma < 49

Range(seq) == {seq[i] : i \in 1..Len(seq)}

\* createCommunity's mods, as an optional: moderators.push(user?.id) is the
\* new length of the array, a number, and new Set(<number>) throws a
\* TypeError (a number is not iterable), so a supplied list yields no mods.
CreateMods(moderators, userId) ==
    IF Given(moderators) THEN {} ELSE {{userId}}

\* updateCommunity's mods: Array.from(new Set([...moderators, user.id]));
\* UpdateModsAsGiven is the supplied list taken without user.id.
UpdateModsAsGiven(moderators, userId) ==
    IF Given(moderators) THEN Range(Val(moderators)) ELSE {userId}

UpdateMods(moderators, userId) ==
    IF Given(moderators) THEN Range(Val(moderators)) \cup {userId} ELSE {userId}

\* Community.create(...): the record stored under a fresh id.
NewCommunity(body, userId, mods) ==
    [exists |-> TRUE, name |-> Val(body.name), creator |-> userId,
     moderators |-> mods,
     bannedUsers |-> IF Given(body.bannedUsers) THEN Val(body.bannedUsers)
                     ELSE EmptyArray(Users),
     subscribers |-> 0]

FreeIds == {c \in CommIds : ~communities[c].exists}

\* The status createCommunity answers with; 201 is the only one that creates.
CreateStatus(user, body) ==
    IF ~Given(body.name) THEN 500
    ELSE IF NameRejected(Val(body.name)) THEN 400
    ELSE IF KarmaTooLow(users[user]) THEN 400
    ELSE IF CreateMods(body.moderators, user) = {} THEN 500
    ELSE 201

createCommunity(user, body) ==
    LET status == CreateStatus(user, body)
    IN  /\ UNCHANGED <<users, documents, pre, inflight, started>>
        /\ IF status # 201
           THEN /\ lastReq' = Handled("createCommunity", status)
                /\ UNCHANGED communities
           ELSE /\ FreeIds # {}
                /\ LET c == CHOOSE x \in FreeIds : \A y \in FreeIds : x <= y
                   IN  /\ communities' =
                            [communities EXCEPT ![c] =
                                NewCommunity(body, user,
                                             Val(CreateMods(body.moderators, user)))]
                       /\ lastReq' = Handled("createCommunity", 201)

\* findByIdAndUpdate: moderators is always written, name and bannedUsers
\* when the body supplies them.
UpdatedCommunity(community, body, mods) ==
    [community EXCEPT
        !.name = IF Given(body.name) THEN Val(body.name) ELSE @,
        !.moderators = mods,
        !.bannedUsers = IF Given(body.bannedUsers) THEN Val(body.bannedUsers)
                        ELSE @]

updateCommunity(id, user, body) ==
    LET community == communities[id]
        status == IF ~community.exists THEN 404
                  ELSE IF community.creator # user THEN 400
                  ELSE 200
    IN  /\ UNCHANGED <<users, documents, pre, inflight, started>>
        /\ lastReq' = Handled("updateCommunity", status)
        /\ communities' =
             IF status = 200
             THEN [communities EXCEPT
                     ![id] = UpdatedCommunity(@, body,
                                              UpdateMods(body.moderators, user))]
             ELSE communities

\* The last guard of ban (line 176); AlreadyBannedNever is ban without it.
AlreadyBannedNever(bannedUsers, target) == FALSE

AlreadyBanned(bannedUsers, target) == includes(bannedUsers, target)

ban(id, user, target) ==
    LET community == communities[id]
        status == IF ~users[target].exists THEN 404
                  ELSE IF ~community.exists THEN 404
                  ELSE IF user \notin community.moderators THEN 400
                  ELSE IF community.creator = target THEN 400
                  ELSE IF AlreadyBanned(community.bannedUsers, target) THEN 400
                  ELSE 200
    IN  /\ lastReq' = Handled("ban", status)
        /\ communities' =
             IF status = 200
             THEN [communities EXCEPT ![id].bannedUsers = push(@, target)]
             ELSE communities
        /\ UNCHANGED <<users, documents, pre, inflight, started>>

unban(id, user, target) ==
    LET community == communities[id]
        status == IF ~users[target].exists THEN 404
                  ELSE IF ~community.exists THEN 404
                  ELSE IF user \notin community.moderators THEN 400
                  ELSE IF ~includes(community.bannedUsers, target) THEN 400
                  ELSE 200
    IN  /\ lastReq' = Handled("unban", status)
        /\ communities' =
             IF status = 200
             THEN [communities EXCEPT ![id].bannedUsers = pull(@, target)]
             ELSE communities
        /\ UNCHANGED <<users, documents, pre, inflight, started>>

\* The guard of subscribe (line 245); AlreadySubscribedNever is subscribe
\* without it.
AlreadySubscribedNever(subscribedCommunities, id) == FALSE

AlreadySubscribed(subscribedCommunities, id) ==
    includes(subscribedCommunities, id)

\* A null user makes user.subscribedCommunities throw a TypeError (500).
subscribe(id, user) ==
    LET community == communities[id]
        status == IF ~community.exists THEN 404
                  ELSE IF ~users[user].exists THEN 500
                  ELSE IF AlreadySubscribed(users[user].subscribedCommunities, id)
                  THEN 400
                  ELSE 200
    IN  /\ UNCHANGED <<documents, pre, inflight, started>>
        /\ lastReq' = Handled("subscribe", status)
        /\ IF status = 200
           THEN /\ users' = [users EXCEPT
                               ![user].subscribedCommunities = push(@, id)]
                /\ communities' = [communities EXCEPT ![id].subscribers = @ + 1]
           ELSE UNCHANGED <<users, communities>>

unsubscribe(id, user) ==
    LET community == communities[id]
        status == IF ~community.exists THEN 404
                  ELSE IF ~users[user].exists THEN 500
                  ELSE IF ~includes(users[user].subscribedCommunities, id) THEN 400
                  ELSE 200
    IN  /\ UNCHANGED <<documents, pre, inflight, started>>
        /\ lastReq' = Handled("unsubscribe", status)
        /\ IF status = 200
           THEN /\ users' = [users EXCEPT
                               ![user].subscribedCommunities = pull(@, id)]
                /\ communities' = [communities EXCEPT ![id].subscribers = @ - 1]
           ELSE UNCHANGED <<users, communities>>

\* Request bodies the community routes are driven with.
ValidName == <<"r", "_", "1">>

OneBan == [u \in Users |-> IF u = "u1" THEN 1 ELSE 0]

CreateBodies ==
    {[name |-> {ValidName}, moderators |-> {}, bannedUsers |-> {}],
     [name |-> {ValidName}, moderators |-> {}, bannedUsers |-> {OneBan}],
     [name |-> {ValidName}, moderators |-> {<<>>}, bannedUsers |-> {}],
     [name |-> {ValidName}, moderators |-> {<<"u1", "u1", "u3">>},
      bannedUsers |-> {}],
     [name |-> {<<"r", " ", "1">>}, moderators |-> {}, bannedUsers |-> {}],
     [name |-> {<<>>}, moderators |-> {}, bannedUsers |-> {}],
     [name |-> {}, moderators |-> {}, bannedUsers |-> {}]}

UpdateBodies ==
    {[name |-> {}, moderators |-> {}, bannedUsers |-> {}],
     [name |-> {}, moderators |-> {<<"u1", "u1", "u3">>}, bannedUsers |-> {}],
     [name |-> {ValidName}, moderators |-> {<<>>}, bannedUsers |-> {OneBan}]}

\* The users the subscribe routes are driven by.
Subscribers == {"u2", "u3"}

NextCommunity ==
    \/ \E user \in Users, body \in CreateBodies : createCommunity(user, body)
    \/ \E id \in CommIds, user \in Users, body \in UpdateBodies :
          updateCommunity(id, user, body)
    \/ \E id \in CommIds, user \in Users, target \in Users :
          \/ ban(id, user, target)
          \/ unban(id, user, target)
    \/ \E id \in CommIds, user \in Subscribers :
          \/ subscribe(id, user)
          \/ unsubscribe(id, user)

SpecCommunity == Init /\ [][NextCommunity]_vars

\* The requests that write the moderators and bannedUsers of a community.
NextBan ==
    \/ \E user \in Users, body \in CreateBodies : createCommunity(user, body)
    \/ \E id \in CommIds, user \in Users, body \in UpdateBodies :
          updateCommunity(id, user, body)
    \/ \E id \in CommIds, user \in Users, target \in Users :
          \/ ban(id, user, target)
          \/ unban(id, user, target)

SpecBan == Init /\ [][NextBan]_vars

\* ------------------------------------------------------------ document handlers
\* req.user.role of the acting user, as the authentication layer supplies it.
RoleOf(user) == IF user = "u1" THEN "admin" ELSE "user"

\* createDocument: Community.findById(community) may be null, and then the
\* optional chain lets the request through.  The handler stores nothing:
\* nothing follows the ban check but the 201 response.
BannedNever(communityDoc, userId) == FALSE

Banned(communityDoc, userId) ==
    communityDoc.exists /\ includes(communityDoc.bannedUsers, userId)

createDocument(Model, community, user) ==
    LET status == IF Banned(communities[community], user) THEN 403 ELSE 201
    IN  /\ lastReq' = Request("createDocument", Model, "", user, status)
        /\ UNCHANGED <<users, documents, communities, pre, inflight, started>>

\* The authorisation test of deleteDocument (lines 83-87);
\* MayDeleteAnyUser is the handler without it.
MayDeleteAnyUser(document, community, user) == TRUE

MayDelete(document, community, user) ==
    \/ document.creator = user
    \/ RoleOf(user) = "admin"
    \/ user \in community.moderators

\* deleteDocument: a null community makes community.moderators throw a
\* TypeError (500) before the authorisation test.
deleteDocument(Model, id, user) ==
    LET document == documents[id]
        community == communities[document.community]
        status == IF ~FindDocument(Model, id) THEN 404
                  ELSE IF ~community.exists THEN 500
                  ELSE IF ~MayDelete(document, community, user) THEN 401
                  ELSE 204
    IN  /\ lastReq' = Request("deleteDocument", Model, id, user, status)
        /\ documents' = IF status = 204
                        THEN [documents EXCEPT ![id].exists = FALSE]
                        ELSE documents
        /\ UNCHANGED <<users, communities, pre, inflight, started>>

NextDocument ==
    \/ \E user \in Users, body \in CreateBodies : createCommunity(user, body)
    \/ \E id \in CommIds, user \in Users, body \in UpdateBodies :
          updateCommunity(id, user, body)
    \/ \E id \in CommIds, user \in Users, target \in Users :
          \/ ban(id, user, target)
          \/ unban(id, user, target)
    \/ \E Model \in Models, community \in CommIds, user \in Users :
          createDocument(Model, community, user)
    \/ \E Model \in Models, id \in DocIds, user \in Users :
          deleteDocument(Model, id, user)

SpecDocument == Init /\ [][NextDocument]_vars

\* ------------------------------------------------------------ interleaved vote requests
\* A vote handler awaits its three findById calls one after the other and
\* then runs to the response without another await: the three save() calls
\* are issued and not awaited, so each of them reaches the store, or is
\* rejected, at some later time of its own.  Requests interleave at every
\* await and with every save.

\* Number of vote requests a run starts.
MaxRequests == 2

\* The interleaved requests are votes of u1 on post d1, created by u2.
Voters == {"u1"}

VotedDocs == {"d1"}

Saves == {"user", "document", "creator"}

Outcome(op, Model, userDoc, document, creator) ==
    CASE op = "upvoteDocument" -> UpvoteOutcome(Model, userDoc, document, creator)
      [] op = "downvoteDocument" ->
            DownvoteOutcome(Model, userDoc, document, creator)
      [] op = "removeUpvote" ->
            RemoveUpvoteOutcome(Model, userDoc, document, creator)
      [] op = "removeDownvote" ->
            RemoveDownvoteOutcome(Model, userDoc, document, creator)

InFlight(r) == r.pc \notin {"idle", "done"}

\* A rejected save is an unhandled rejection: the process logs it and closes
\* the server, which lets the requests in flight finish and takes no new one.
ShuttingDown == \E s \in Slots : inflight[s].failed # {}

\* The slot a new request takes.
FreeSlot ==
    CHOOSE s \in Slots :
        ~InFlight(inflight[s]) /\ (s = "r1" \/ InFlight(inflight["r1"]))

\* await Model.findById(req.params.id), and the 404 of a null document.
loadDocument(op, Model, id, user) ==
    /\ started < MaxRequests
    /\ ~ShuttingDown
    /\ \E s \in Slots : ~InFlight(inflight[s])
    /\ started' = started + 1
    /\ inflight' =
         [inflight EXCEPT ![FreeSlot] =
            IF FindDocument(Model, id)
            THEN [Idle EXCEPT !.pc = "loadUser", !.op = op, !.Model = Model,
                              !.id = id, !.user = user,
                              !.document = documents[id]]
            ELSE [Idle EXCEPT !.pc = "done", !.op = op, !.Model = Model,
                              !.id = id, !.user = user, !.status = 404]]
    /\ UNCHANGED <<users, documents, communities, lastReq, pre>>

\* await User.findById(user.id)
loadUser(s) ==
    /\ inflight[s].pc = "loadUser"
    /\ inflight' = [inflight EXCEPT ![s].pc = "loadCreator",
                                    ![s].userDoc = users[inflight[s].user]]
    /\ UNCHANGED <<users, documents, communities, lastReq, pre, started>>

\* await User.findById(document.creator) and, with no further await, the
\* guards, the changes to the loaded copies, the three save() calls and the
\* response.  Of the copies only what the saves write is kept.
loadCreator(s) ==
    LET r == inflight[s]
        out == Outcome(r.op, r.Model, r.userDoc, r.document,
                       users[r.document.creator])
    IN  /\ r.pc = "loadCreator"
        /\ inflight' =
             [inflight EXCEPT ![s] =
                [r EXCEPT !.pc = IF out.saves = <<>> THEN "done" ELSE "saving",
                          !.document = <<>>, !.userDoc = <<>>, !.out = out,
                          !.pending = Range(out.saves),
                          !.status = out.status]]
        /\ UNCHANGED <<users, documents, communities, lastReq, pre, started>>

\* What the store holds once a save of request r has been applied.
LandedUsers(r, save) ==
    IF save = "user"
    THEN [users EXCEPT
            ![r.user] = UpdateArrays(@, r.id, r.out.user.pull, r.out.user.push)]
    ELSE IF save = "creator"
    THEN [users EXCEPT ![documents[r.id].creator] = SetFields(@, r.out.creator)]
    ELSE users

LandedDocuments(r, save) ==
    IF save = "document"
    THEN [documents EXCEPT ![r.id] = SetFields(@, r.out.document)]
    ELSE documents

\* The user collection after a save of request r was rejected: the rejected
\* save writes nothing and nothing is undone (the promise is dropped);
\* RejectedSaveUndoesUser is a handler that takes back what userDoc.save()
\* pushed.
RejectedSaveUndoesUser(r, save) ==
    IF "user" \in r.landed
    THEN [users EXCEPT ![r.user] = UpdateArrays(@, r.id, r.out.user.push, {})]
    ELSE users

RejectedSave(r, save) == users

\* The request once its save has landed or failed; what the saves write is
\* dropped with the last of them.
Settled(r, save) ==
    [r EXCEPT !.pending = @ \ {save},
              !.pc = IF r.pending = {save} THEN "done" ELSE @,
              !.out = IF r.pending = {save} THEN Idle.out ELSE @]

\* One of the saves a request issued reaches the store.
saveLands(s, save) ==
    LET r == inflight[s]
    IN  /\ r.pc = "saving" /\ save \in r.pending
        /\ users' = LandedUsers(r, save)
        /\ documents' = LandedDocuments(r, save)
        /\ inflight' = [inflight EXCEPT
                          ![s] = [Settled(r, save) EXCEPT !.landed = @ \cup {save}]]
        /\ UNCHANGED <<communities, lastReq, pre, started>>

\* One of the saves a request issued is rejected.
saveFails(s, save) ==
    LET r == inflight[s]
    IN  /\ r.pc = "saving" /\ save \in r.pending
        /\ users' = RejectedSave(r, save)
        /\ inflight' = [inflight EXCEPT
                          ![s] = [Settled(r, save) EXCEPT !.failed = @ \cup {save}]]
        /\ UNCHANGED <<documents, communities, lastReq, pre, started>>

NextInterleaved ==
    \/ \E op \in VoteOps, id \in VotedDocs, user \in Voters :
          loadDocument(op, documents[id].modelName, id, user)
    \/ \E s \in Slots :
          \/ loadUser(s)
          \/ loadCreator(s)
          \/ \E save \in Saves :
                \/ saveLands(s, save)
                \/ saveFails(s, save)

\* The store the interleaved requests start from: every account on record
\* and u1 with no vote on d1, or with the upvote an earlier upvoteDocument
\* request left (d1 counted once, its creator's karma raised by one).
StoreBefore(upvoted) ==
    [users |->
        [u \in Users |->
            IF upvoted /\ u = "u1"
            THEN [InitUser(u, Users) EXCEPT !.upvotedPosts = push(@, "d1")]
            ELSE IF upvoted /\ u = InitDocuments["d1"].creator
            THEN [InitUser(u, Users) EXCEPT !.karma = @ + 1]
            ELSE InitUser(u, Users)],
     documents |->
        IF upvoted THEN [InitDocuments EXCEPT !["d1"].upvotes = @ + 1]
        ELSE InitDocuments]

InitInterleaved ==
    /\ \E upvoted \in BOOLEAN :
          /\ users = StoreBefore(upvoted).users
          /\ documents = StoreBefore(upvoted).documents
    /\ communities = [c \in CommIds |-> NoCommunity]
    /\ lastReq = NoRequest
    /\ pre = [users |-> users, documents |-> documents]
    /\ inflight = [s \in Slots |-> Idle]
    /\ started = 0

SpecInterleaved == InitInterleaved /\ [][NextInterleaved]_vars

\* A store two interleaved requests of u1 leave, an upvote and a downvote
\* of d1 that each loaded the user before the other's save: d1 is in both
\* of u1's post arrays.  The vote requests are run against it one at a time.
InitCorrupt ==
    /\ users = [StoreBefore(TRUE).users EXCEPT
                  !["u1"].downvotedPosts = push(@, "d1"),
                  !["u2"].karma = @ - 1]
    /\ documents = [StoreBefore(TRUE).documents EXCEPT !["d1"].downvotes = @ + 1]
    /\ communities = [c \in CommIds |-> NoCommunity]
    /\ lastReq = NoRequest
    /\ pre = [users |-> users, documents |-> documents]
    /\ inflight = [s \in Slots |-> Idle]
    /\ started = 0

SpecCorrupt == InitCorrupt /\ [][NextVote]_vars

\* ------------------------------------------------------------ properties of the vote handlers
\* The user's vote arrays for the kind of document id.
Upvoted(us, docs, u, id) ==
    includes(us[u][VoteFields(docs[id].modelName).up], id)

Downvoted(us, docs, u, id) ==
    includes(us[u][VoteFields(docs[id].modelName).down], id)

Upvoters(id) == {u \in Users : users[u].exists /\ Upvoted(users, documents, u, id)}

Downvoters(id) ==
    {u \in Users : users[u].exists /\ Downvoted(users, documents, u, id)}

\* The step handles a vote request op that finds its document, whose voter
\* record exists.
VoteStep(op) ==
    /\ lastReq'.op = op
    /\ FindDocument(lastReq'.Model, lastReq'.id)
    /\ users[lastReq'.user].exists

CreatorOf(id) == documents[id].creator

VoteRecordsUnchanged == UNCHANGED <<users, documents, communities>>

\* C1: after any sequence of vote requests, each run to completion, every
\* document's upvotes is the number of users whose upvoted array of the
\* document's kind holds its id, and its downvotes the number of users whose
\* downvoted array holds it.
C1_CountersMatchVoteSets ==
    \A id \in DocIds :
        documents[id].exists =>
            /\ documents[id].upvotes = Cardinality(Upvoters(id))
            /\ documents[id].downvotes = Cardinality(Downvoters(id))

C1_Witness ==
    /\ lastReq.op = "removeDownvote" /\ lastReq.status = 200
    /\ documents["d1"].upvotes = 1
    /\ documents["d1"].downvotes = 1
    /\ documents["d2"].downvotes = 2

\* C2: no document id is in both the upvoted and the downvoted array of a
\* user, for either kind of content, in any state vote requests reach.
C2_NoDualMembership ==
    \A u \in Users, id \in DocIds :
        /\ ~(includes(users[u].upvotedPosts, id)
             /\ includes(users[u].downvotedPosts, id))
        /\ ~(includes(users[u].upvotedComments, id)
             /\ includes(users[u].downvotedComments, id))

C2_Witness ==
    /\ lastReq.op = "upvoteDocument" /\ lastReq.status = 200
    /\ Downvoted(pre.users, pre.documents, lastReq.user, lastReq.id)
    /\ Upvoted(users, documents, lastReq.user, lastReq.id)

\* C3: an upvote by a user who has upvoted the document, and a downvote by a
\* user who has downvoted it, is answered with 400 and leaves every user,
\* document and community record as it was.
C3_AlreadyVotedChangesNothing ==
    [][ /\ (VoteStep("upvoteDocument")
            /\ Upvoted(users, documents, lastReq'.user, lastReq'.id))
           => (lastReq'.status = 400 /\ VoteRecordsUnchanged)
        /\ (VoteStep("downvoteDocument")
            /\ Downvoted(users, documents, lastReq'.user, lastReq'.id))
           => (lastReq'.status = 400 /\ VoteRecordsUnchanged)
        /\ (VoteStep("upvoteDocument")
            /\ lastReq.op = "upvoteDocument" /\ lastReq.status = 200
            /\ lastReq'.Model = lastReq.Model /\ lastReq'.id = lastReq.id
            /\ lastReq'.user = lastReq.user)
           => (lastReq'.status = 400 /\ VoteRecordsUnchanged) ]_vars

\* two upvotes by the same user in succession, the first one successful
C3_Witness ==
    /\ lastReq.op = "upvoteDocument" /\ lastReq.status = 400
    /\ Upvoted(users, documents, lastReq.user, lastReq.id)
    /\ users = pre.users /\ documents = pre.documents

\* The last request was op by a voter with no vote on the document, whose
\* record and whose creator's record exist, and this step handles undo for
\* the same voter and document.
RoundTripStep(op, undo) ==
    /\ lastReq.op = op
    /\ pre.documents[lastReq.id].exists
    /\ pre.documents[lastReq.id].modelName = lastReq.Model
    /\ pre.users[lastReq.user].exists
    /\ pre.users[pre.documents[lastReq.id].creator].exists
    /\ ~Upvoted(pre.users, pre.documents, lastReq.user, lastReq.id)
    /\ ~Downvoted(pre.users, pre.documents, lastReq.user, lastReq.id)
    /\ lastReq'.op = undo
    /\ lastReq'.Model = lastReq.Model
    /\ lastReq'.id = lastReq.id
    /\ lastReq'.user = lastReq.user

\* C4: an upvote by a user with no vote on the document followed at once by
\* that user's removeUpvote (voter and creator records existing) both
\* succeed and leave the user records (vote arrays, karma) and the document
\* records (upvotes, downvotes) exactly as they were before the upvote; the
\* same for downvote followed by removeDownvote.
C4_RoundTrip ==
    [][ (RoundTripStep("upvoteDocument", "removeUpvote")
         \/ RoundTripStep("downvoteDocument", "removeDownvote"))
        => /\ lastReq.status = 200 /\ lastReq'.status = 200
           /\ users' = pre.users
           /\ documents' = pre.documents ]_vars

\* a removeUpvote that undid the upvote handled just before it
C4_Witness ==
    /\ lastReq.op = "removeUpvote" /\ lastReq.status = 200
    /\ Upvoted(pre.users, pre.documents, lastReq.user, lastReq.id)
    /\ pre.documents[lastReq.id].upvotes = 1
    /\ documents[lastReq.id].upvotes = 0
    /\ users[CreatorOf(lastReq.id)].karma = InitKarma[CreatorOf(lastReq.id)]

\* C5: a downvote by a user who has upvoted the document (voter and creator
\* records existing) succeeds, takes 2 off the creator's karma, 1 off upvotes,
\* adds 1 to downvotes and leaves the id in the downvoted array only; an
\* upvote by a user who has downvoted it is the mirror image, karma +2.
C5_SwitchLaw ==
    [][ LET id == lastReq'.id
            u == lastReq'.user
            c == CreatorOf(id)
        IN  /\ (VoteStep("downvoteDocument") /\ users[c].exists
                /\ Upvoted(users, documents, u, id))
               => /\ lastReq'.status = 200
                  /\ users'[c].karma = users[c].karma - 2
                  /\ documents'[id].upvotes = documents[id].upvotes - 1
                  /\ documents'[id].downvotes = documents[id].downvotes + 1
                  /\ Downvoted(users', documents', u, id)
                  /\ ~Upvoted(users', documents', u, id)
            /\ (VoteStep("upvoteDocument") /\ users[c].exists
                /\ Downvoted(users, documents, u, id))
               => /\ lastReq'.status = 200
                  /\ users'[c].karma = users[c].karma + 2
                  /\ documents'[id].upvotes = documents[id].upvotes + 1
                  /\ documents'[id].downvotes = documents[id].downvotes - 1
                  /\ Upvoted(users', documents', u, id)
                  /\ ~Downvoted(users', documents', u, id) ]_vars

\* a downvote that switched the voter's upvote on their own document
C5_Witness ==
    /\ lastReq.op = "downvoteDocument" /\ lastReq.status = 200
    /\ lastReq.user = CreatorOf(lastReq.id)
    /\ Upvoted(pre.users, pre.documents, lastReq.user, lastReq.id)
    /\ Downvoted(users, documents, lastReq.user, lastReq.id)
    /\ users[CreatorOf(lastReq.id)].karma
         = pre.users[CreatorOf(lastReq.id)].karma - 2

\* C6: removeUpvote by a user who has not upvoted the document (no vote, or a
\* downvote), and removeDownvote by a user who has not downvoted it, is
\* answered with 400 and changes no user, document or community record.
C6_NotVotedChangesNothing ==
    [][ /\ (VoteStep("removeUpvote")
            /\ ~Upvoted(users, documents, lastReq'.user, lastReq'.id))
           => (lastReq'.status = 400 /\ VoteRecordsUnchanged)
        /\ (VoteStep("removeDownvote")
            /\ ~Downvoted(users, documents, lastReq'.user, lastReq'.id))
           => (lastReq'.status = 400 /\ VoteRecordsUnchanged) ]_vars

\* a removeUpvote by a user whose vote on the document is a downvote
C6_Witness ==
    /\ lastReq.op = "removeUpvote" /\ lastReq.status = 400
    /\ Downvoted(users, documents, lastReq.user, lastReq.id)
    /\ users = pre.users /\ documents = pre.documents

\* C7: a vote request whose document, voter record or creator record does
\* not exist is answered with 404 and saves no changed user or document.
C7_MissingRecordIs404 ==
    [][ (/\ lastReq'.op \in VoteOps
         /\ \/ ~FindDocument(lastReq'.Model, lastReq'.id)
            \/ ~users[lastReq'.user].exists
            \/ ~users[CreatorOf(lastReq'.id)].exists)
        => (lastReq'.status = 404 /\ UNCHANGED <<users, documents>>) ]_vars

\* ------------------------------------------------------------ properties of the community handlers
\* C8: createCommunity by a user whose karma is below 50 is answered with 400
\* and creates no community (karma 49 included); with karma of 50 or more and
\* a name that passes, the request is not turned down by the gate.  Stated
\* for bodies that name the community and carry no moderators list, which
\* nothing but the name check and the gate can turn down.
C8_KarmaGateAt50 ==
    [][ \A user \in Users, body \in CreateBodies :
           (createCommunity(user, body) /\ users[user].exists
            /\ Given(body.name) /\ ~Given(body.moderators))
           => /\ users[user].karma < 50
                 => (lastReq'.status = 400 /\ UNCHANGED communities)
              /\ (users[user].karma >= 50 /\ ~NameRejected(Val(body.name)))
                 => lastReq'.status # 400 ]_vars

\* C9: the creator of every existing community is one of its moderators, in
\* every state createCommunity, updateCommunity, ban, unban, subscribe and
\* unsubscribe reach.
C9_CreatorIsModerator ==
    \A c \in CommIds :
        communities[c].exists =>
            communities[c].creator \in communities[c].moderators

\* a community whose moderators were replaced by a list that does not name
\* its creator, with a banned user and a subscriber
C9_Witness ==
    \E c \in CommIds :
        /\ communities[c].exists
        /\ communities[c].creator = "u2"
        /\ communities[c].moderators = {"u1", "u2", "u3"}
        /\ includes(communities[c].bannedUsers, "u1")
        /\ communities[c].subscribers = 1
        /\ lastReq.op = "unban" /\ lastReq.status = 400

\* C10: createCommunity by a user with karma of at least 50 and a name
\* matching ^\w+$ is answered with 201 whether or not the body has a
\* moderators list, and the community created has the listed moderators,
\* duplicates removed, plus the creator as its moderators.
C10_CreateSucceedsWithModerators ==
    [][ \A user \in Users, body \in CreateBodies :
           (/\ createCommunity(user, body)
            /\ users[user].exists /\ users[user].karma >= 50
            /\ Given(body.name) /\ ~NameRejected(Val(body.name)))
           => /\ lastReq'.status = 201
              /\ \E c \in FreeIds :
                    /\ communities'[c].exists
                    /\ communities'[c].creator = user
                    /\ communities'[c].moderators =
                         (IF Given(body.moderators)
                          THEN Range(Val(body.moderators)) ELSE {})
                         \cup {user} ]_vars

\* ------------------------------------------------------------ properties of the ban and document handlers
\* No id occurs twice in the array.
NoUserTwice(arr) == \A u \in DOMAIN arr : arr[u] <= 1

\* C11: a ban request answered 200 was made by a moderator of the community
\* against a user who is neither its creator nor already banned, and adds
\* exactly that user to bannedUsers; a ban by a non-moderator, of the
\* creator or of a banned user is answered 400, and a 400 leaves the
\* community as it was.  So no ban or unban request puts a user into
\* bannedUsers twice, or puts the creator into it.
C11_BanGuards ==
    [][lastReq'.op \in {"ban", "unban"} =>
       \A id \in CommIds, user \in Users, target \in Users :
          LET community == communities[id]
              after == communities'[id]
          IN  /\ (lastReq'.op = "ban" /\ ban(id, user, target)) =>
                   /\ lastReq'.status = 200 =>
                        /\ user \in community.moderators
                        /\ community.creator # target
                        /\ ~includes(community.bannedUsers, target)
                        /\ after.bannedUsers[target] = 1
                        /\ \A u \in Users \ {target} :
                              after.bannedUsers[u] = community.bannedUsers[u]
                        /\ after = [community EXCEPT
                                      !.bannedUsers = after.bannedUsers]
                        /\ \A c \in CommIds \ {id} :
                              communities'[c] = communities[c]
                   /\ ( /\ community.exists /\ users[target].exists
                        /\ \/ user \notin community.moderators
                           \/ community.creator = target
                           \/ includes(community.bannedUsers, target) )
                        => lastReq'.status = 400
                   /\ lastReq'.status = 400 => UNCHANGED communities
              /\ ( \/ lastReq'.op = "ban" /\ ban(id, user, target)
                   \/ lastReq'.op = "unban" /\ unban(id, user, target) ) =>
                   /\ NoUserTwice(community.bannedUsers)
                        => NoUserTwice(after.bannedUsers)
                   /\ ( community.exists
                        /\ ~includes(community.bannedUsers, community.creator) )
                        => ~includes(after.bannedUsers, after.creator)
      ]_vars

C11_Witness ==
    /\ lastReq = Handled("unban", 200)
    /\ \E id \in CommIds :
          /\ includes(communities[id].bannedUsers, "u3")
          /\ ~includes(communities[id].bannedUsers, "u1")
          /\ communities[id].creator = "u2"

\* C12: a createDocument request by a user who is in the bannedUsers of the
\* community it names is answered 403 and stores no document, whatever ban
\* and unban requests came before.
C12_BannedCannotCreate ==
    [][lastReq'.op = "createDocument" =>
       \A Model \in Models, community \in CommIds, user \in Users :
          ( /\ createDocument(Model, community, user)
            /\ communities[community].exists
            /\ includes(communities[community].bannedUsers, user) )
          => (lastReq'.status = 403 /\ documents' = documents)
      ]_vars

C12_Witness ==
    /\ lastReq = Request("createDocument", "Post", "", "u3", 403)
    /\ \E c \in CommIds : /\ includes(communities[c].bannedUsers, "u3")
                           /\ ~includes(communities[c].bannedUsers, "u1")

\* C13: deleteDocument removes a document only for its creator, an admin or
\* a moderator of the document's community; for anyone else (the community
\* being on record) it answers 401 and the document is still there; a
\* document that is not found is answered 404.
C13_DeleteAuthorised ==
    [][lastReq'.op = "deleteDocument" =>
       \A Model \in Models, id \in DocIds, user \in Users :
          LET document == documents[id]
              community == communities[document.community]
              authorised == \/ document.creator = user
                            \/ RoleOf(user) = "admin"
                            \/ user \in community.moderators
          IN  deleteDocument(Model, id, user) =>
                /\ (document.exists /\ ~documents'[id].exists) => authorised
                /\ ( /\ FindDocument(Model, id) /\ community.exists
                     /\ ~authorised )
                     => /\ lastReq'.status = 401
                        /\ documents'[id].exists
                        /\ documents' = documents
                /\ ~FindDocument(Model, id)
                     => (lastReq'.status = 404 /\ documents' = documents)
      ]_vars

C13_Witness ==
    /\ lastReq = Request("deleteDocument", "Comment", "d2", "u2", 401)
    /\ ~documents["d1"].exists
    /\ documents["d2"].exists

\* The number of users subscribed to community c in the user collection us.
SubscribedTo(us, c) ==
    Cardinality({u \in Users : includes(us[u].subscribedCommunities, c)})

\* C14: subscribe by a subscribed user and unsubscribe by a user who is not
\* subscribed are answered 400 and change nothing; and every request, run to
\* completion, changes a community's subscribers counter by exactly the
\* change in the number of users whose subscribedCommunities holds it.
C14_SubscribersCounter ==
    [][/\ \A c \in CommIds :
             communities'[c].subscribers - communities[c].subscribers
                = SubscribedTo(users', c) - SubscribedTo(users, c)
       /\ lastReq'.op \in {"subscribe", "unsubscribe"} =>
             \A id \in CommIds, user \in Users :
                LET subscribed ==
                        /\ communities[id].exists /\ users[user].exists
                        /\ includes(users[user].subscribedCommunities, id)
                    unsubscribed ==
                        /\ communities[id].exists /\ users[user].exists
                        /\ ~includes(users[user].subscribedCommunities, id)
                IN  ( \/ lastReq'.op = "subscribe"
                         /\ subscribed /\ subscribe(id, user)
                      \/ lastReq'.op = "unsubscribe"
                         /\ unsubscribed /\ unsubscribe(id, user) )
                    => (lastReq'.status = 400 /\ UNCHANGED <<users, communities>>)
      ]_vars

C14_Witness ==
    /\ lastReq = Handled("subscribe", 400)
    /\ \E c \in CommIds : /\ communities[c].subscribers = 2
                           /\ SubscribedTo(users, c) = 2

\* ------------------------------------------------------------ properties of interleaved and failing requests
\* The store InitCorrupt starts from, reached by two interleaved requests.
CorruptStoreReached ==
    /\ started = 2
    /\ \A s \in Slots : inflight[s].pc = "done" /\ inflight[s].failed = {}
    /\ includes(users["u1"].upvotedPosts, "d1")
    /\ includes(users["u1"].downvotedPosts, "d1")
    /\ users["u2"].karma = InitKarma["u2"]
    /\ documents["d1"].upvotes = 1
    /\ documents["d1"].downvotes = 1

\* The two requests made so far are upvoteDocument requests of the same user
\* for the same document, both answered 200, and every save of both has
\* landed.  (A request takes the second slot only while the first is taken,
\* so the two overlapped.)
TwoUpvotesLanded ==
    /\ started = 2
    /\ \A s \in Slots :
          /\ inflight[s].op = "upvoteDocument"
          /\ inflight[s].status = 200
          /\ inflight[s].pc = "done"
          /\ inflight[s].failed = {}
    /\ inflight["r1"].user = inflight["r2"].user
    /\ inflight["r1"].id = inflight["r2"].id

\* C15: two upvote requests of one user for one document that interleave
\* can both pass the not-already-upvoted check and both be answered 200;
\* once their saves have landed the user's upvoted array holds the id twice
\* while the user counts once among the upvoters, and upvotes and the
\* creator's karma have gone up by one or by two, depending on the order
\* the loads and saves took.  The witness is the run in which they went up
\* by two: the counters no longer match the one upvoter.
C15_LostUpdate ==
    TwoUpvotesLanded =>
        LET u == inflight["r1"].user
            id == inflight["r1"].id
        IN  /\ users[u].upvotedPosts[id] = 2
            /\ Upvoters(id) = {u}
            /\ documents[id].upvotes \in {1, 2}
            /\ users[CreatorOf(id)].karma - InitKarma[CreatorOf(id)] \in {1, 2}

C15_Witness ==
    /\ TwoUpvotesLanded
    /\ Cardinality(Upvoters("d1")) = 1
    /\ documents["d1"].upvotes = 2
    /\ users[CreatorOf("d1")].karma = InitKarma[CreatorOf("d1")] + 2

\* C16: upvotes and downvotes of every document are non-negative in every
\* state interleaved vote requests reach from a consistent store.
C16_CountersNonNegative ==
    \A id \in DocIds : documents[id].upvotes >= 0 /\ documents[id].downvotes >= 0

\* C17: when the only request so far is an upvote whose userDoc.save() has
\* landed and whose document.save() or creator.save() was rejected, the
\* user's upvoted array still holds the document: nothing is rolled back.
\* The witness is the state where both later saves were rejected, so that
\* upvotes and the creator's karma are as they were.
C17_NoRollback ==
    \A s \in Slots :
        ( /\ started = 1
          /\ inflight[s].op = "upvoteDocument"
          /\ inflight[s].status = 200
          /\ "user" \in inflight[s].landed
          /\ inflight[s].failed \cap {"document", "creator"} # {} )
        => Upvoted(users, documents, inflight[s].user, inflight[s].id)

C17_Witness ==
    /\ started = 1
    /\ inflight["r1"].op = "upvoteDocument"
    /\ inflight["r1"].status = 200
    /\ inflight["r1"].landed = {"user"}
    /\ inflight["r1"].failed = {"document", "creator"}
    /\ Upvoted(users, documents, "u1", "d1")
    /\ documents["d1"].upvotes = 0
    /\ users[CreatorOf("d1")].karma = InitKarma[CreatorOf("d1")]

\* The user of the request handled last holds its document in both vote
\* arrays of the document's kind.
InBothSets(us, docs, req) ==
    /\ req.op \in VoteOps
    /\ docs[req.id].exists /\ docs[req.id].modelName = req.Model
    /\ us[req.user].exists
    /\ Upvoted(us, docs, req.user, req.id)
    /\ Downvoted(us, docs, req.user, req.id)

\* C18: a vote request that finds the document id in both of the user's
\* vote arrays is answered with a 500-class error and changes no user and
\* no document.
C18_CorruptionIsServerError ==
    [][InBothSets(users, documents, lastReq')
          => (lastReq'.status >= 500 /\ UNCHANGED <<users, documents>>)]_vars

\* C19: a vote request that has sent 200 has no save outstanding and none
\* rejected.
C19_SuccessAfterSaves ==
    \A s \in Slots :
        inflight[s].status = 200
            => (inflight[s].pending = {} /\ inflight[s].failed = {})

\* ------------------------------------------------------------ properties of self-votes
\* C20: a vote request answered 200 whose user created the document leaves
\* that one user record with both changes: after an upvote the document is
\* in the upvoted array (and not in the downvoted one) and karma is one
\* higher, two when the upvote replaced a downvote; after a downvote the
\* mirror image; after removeUpvote the document is out of the upvoted
\* array and karma one lower; after removeDownvote out of the downvoted
\* array and karma one higher.
C20_SelfVoteFullyApplied ==
    [][\A op \in VoteOps :
          ( /\ VoteStep(op)
            /\ lastReq'.user = CreatorOf(lastReq'.id)
            /\ lastReq'.status = 200 )
          => LET u == lastReq'.user
                 id == lastReq'.id
                 wasUp == Upvoted(users, documents, u, id)
                 wasDown == Downvoted(users, documents, u, id)
                 isUp == Upvoted(users', documents', u, id)
                 isDown == Downvoted(users', documents', u, id)
                 gain == users'[u].karma - users[u].karma
             IN  /\ op = "upvoteDocument" =>
                      (isUp /\ ~isDown /\ gain = IF wasDown THEN 2 ELSE 1)
                 /\ op = "downvoteDocument" =>
                      (isDown /\ ~isUp /\ gain = IF wasUp THEN -2 ELSE -1)
                 /\ op = "removeUpvote" =>
                      (~isUp /\ isDown = wasDown /\ gain = -1)
                 /\ op = "removeDownvote" =>
                      (~isDown /\ isUp = wasUp /\ gain = 1)
      ]_vars

C20_Witness ==
    /\ lastReq = Request("upvoteDocument", "Post", "d1", "u2", 200)
    /\ Upvoted(users, documents, "u2", "d1")
    /\ ~Upvoted(pre.users, pre.documents, "u2", "d1")
    /\ ~Downvoted(pre.users, pre.documents, "u2", "d1")
    /\ users["u2"].karma = pre.users["u2"].karma + 1
====
